---- MODULE Spec2Model ----
(***************************************************************************)
(* Model of the GCP cleanup script (main.go).                              *)
(*                                                                         *)
(* main walks projectIDs in order and calls cleanupProject for each one.   *)
(* cleanupProject runs deleteVMInstances to completion, then fans out      *)
(* deleteDisks, releaseStaticIPs and deleteServiceAccounts as goroutines   *)
(* and joins them.  Every provider call (client creation, iterator Next,   *)
(* Delete, op.Wait) is one step of the goroutine that issues it.           *)
(*                                                                         *)
(* The provider is the environment.  What it answers to the list calls of  *)
(* one project (the pages, and whether client creation or the listing      *)
(* fails, which Delete submissions and which op.Wait calls fail) is fixed   *)
(* when main reaches the project (inv[p]).                                 *)
(*                                                                         *)
(* Strings the code takes apart (zone and region URLs, service account     *)
(* emails) are sequences of one-character strings.                         *)
(***************************************************************************)
EXTENDS Integers, Sequences, FiniteSets, TLC

VARIABLES dryRun, mainPc, mainIdx, inv, cpPc, vm, disk, addr, sa,
          found, wouldCount, listCalls, delCalls, warned, waitCalls, errLog

vars == <<dryRun, mainPc, mainIdx, inv, cpPc, vm, disk, addr, sa,
          found, wouldCount, listCalls, delCalls, warned, waitCalls, errLog>>

\* ------------------------------------------------------------------------
\* Configuration (main.go:17-28)
\* ------------------------------------------------------------------------

projectIDs == <<"z257c6412e15fa257-tp", "mfc4dc04826a8d270-tp", "u6c7e2e4892fda638-tp">>

Projects == 1..Len(projectIDs)

\* The value the dryRun variable has in the source as shipped.
dryRunShipped == FALSE

\* The literal the service account filter looks for: "vsa-sa-gcnv".
saPrefix == <<"v","s","a","-","s","a","-","g","c","n","v">>

\* ------------------------------------------------------------------------
\* String helpers
\* ------------------------------------------------------------------------

RECURSIVE SplitFrom(_, _, _, _)
\* strings.Split(s, sep) for a one-character sep: cur is the part being
\* read, i the next position.  Always returns at least one part.
SplitFrom(s, sep, i, cur) ==
  IF i > Len(s) THEN <<cur>>
  ELSE IF s[i] = sep THEN <<cur>> \o SplitFrom(s, sep, i + 1, <<>>)
  ELSE SplitFrom(s, sep, i + 1, Append(cur, s[i]))

Split(s, sep) == SplitFrom(s, sep, 1, <<>>)

HasPrefix(s, prefix) ==
  /\ Len(s) >= Len(prefix)
  /\ SubSeq(s, 1, Len(prefix)) = prefix

extractZoneFromURL(zoneURL) ==
  IF zoneURL = <<>> THEN <<>>
  ELSE LET parts == Split(zoneURL, "/")
       IN IF Len(parts) > 0 THEN parts[Len(parts)] ELSE zoneURL

extractRegionFromURL(regionURL) ==
  IF regionURL = <<>> THEN <<>>
  ELSE LET parts == Split(regionURL, "/")
       IN IF Len(parts) > 0 THEN parts[Len(parts)] ELSE regionURL

\* ------------------------------------------------------------------------
\* Filters of the cleaners
\* ------------------------------------------------------------------------

\* Variant: the test for attached disks off by one.
diskAttachedOffByOne(d) == Len(d.users) > 1

\* deleteDisks: "Skip disks that are attached to instances".
diskAttached(d) == Len(d.users) > 0

\* releaseStaticIPs: "Skip addresses that are in use" (region-scoped loop).
addressInUse(a) == a.status = "IN_USE"

\* Variant: the global loop without the test for addresses in use.
globalAddressInUseUnchecked(g) == FALSE

\* releaseStaticIPs: the same test in the global loop.
globalAddressInUse(g) == g.status = "IN_USE"

\* Variant: the filter looking at the part after the last "@".
saIsTargetLastPart(account) ==
  LET emailParts == Split(account.email, "@")
  IN Len(emailParts) > 0 /\ HasPrefix(emailParts[Len(emailParts)], saPrefix)

\* deleteServiceAccounts: the filter on the email local part.
saIsTarget(account) ==
  LET emailParts == Split(account.email, "@")
  IN Len(emailParts) > 0 /\ HasPrefix(emailParts[1], saPrefix)

\* ------------------------------------------------------------------------
\* Provider answers (the environment)
\* ------------------------------------------------------------------------

\* Number of instances the provider lists for a populated project.
NumInstances == 2

\* Number of service accounts of a populated project that carry the prefix.
NumTargetAccounts == 2

zoneA == <<"p","/","z","/","a">>
zoneB == <<"p","/","z","/","b">>
regionR == <<"p","/","r","/","r">>

instanceOf(k) ==
  [name |-> <<"vm", k>>,
   zone |-> IF k % 2 = 1 THEN zoneA ELSE zoneB,
   status |-> IF k = 1 THEN "RUNNING" ELSE "TERMINATED"]

\* One aggregated-list page per instance.
instancePages == [k \in 1..NumInstances |-> <<instanceOf(k)>>]

diskPages ==
  << << [name |-> <<"d", 1>>, zone |-> zoneA, users |-> <<"vm1">>, sizeGb |-> 100],
        [name |-> <<"d", 2>>, zone |-> zoneA, users |-> <<>>, sizeGb |-> 10] >>,
     << [name |-> <<"d", 3>>, zone |-> <<>>, users |-> <<>>, sizeGb |-> 100],
        [name |-> <<"d", 4>>, zone |-> zoneB, users |-> <<"vm1", "vm2">>, sizeGb |-> 10] >> >>

addressPages ==
  << << [name |-> <<"a", 1>>, region |-> regionR, status |-> "IN_USE"],
        [name |-> <<"a", 2>>, region |-> regionR, status |-> "RESERVED"] >> >>

globalAddresses ==
  << [name |-> <<"g", 1>>, status |-> "IN_USE"],
     [name |-> <<"g", 2>>, status |-> "RESERVED"] >>

targetAccount(k) ==
  [name |-> <<"t", k>>,
   email |-> IF k = 1 THEN saPrefix \o <<"-","1","@","p">>
             ELSE IF k = 2 THEN saPrefix
             ELSE saPrefix \o [j \in 1..k |-> "x"] \o <<"@","p">>]

\* Accounts the filter must leave alone: another name, the prefix only
\* after the "@", and a proper prefix of the literal.
otherAccounts ==
  << [name |-> <<"o", 1>>, email |-> <<"o","@","p">>],
     [name |-> <<"o", 2>>, email |-> <<"x","@">> \o saPrefix],
     [name |-> <<"o", 3>>, email |-> <<"v","s","a","-","s","a","@","p">>] >>

accountList ==
  <<otherAccounts[1]>> \o [k \in 1..NumTargetAccounts |-> targetAccount(k)]
    \o <<otherAccounts[2], otherAccounts[3]>>

bucketList == << [name |-> <<"b", 1>>, objects |-> << <<"obj", 1>> >>] >>

\* The names of everything a populated project holds.
allNames ==
  {instanceOf(k).name : k \in 1..NumInstances}
    \cup {targetAccount(k).name : k \in 1..NumTargetAccounts}
    \cup {<<"d", 2>>, <<"d", 3>>, <<"a", 2>>, <<"g", 2>>}

\* The resources whose Delete is refused at submission, per outcome pattern.
deleteFailures(pattern) ==
  CASE pattern = "ok" -> {}
    [] pattern = "submit" -> allNames
    [] pattern = "wait" -> {}
    [] pattern = "mixed" -> {<<"vm", 1>>, <<"d", 2>>, <<"a", 2>>, <<"t", 1>>}

\* The resources whose accepted Delete fails in op.Wait, per outcome pattern.
waitFailures(pattern) ==
  CASE pattern = "ok" -> {}
    [] pattern = "submit" -> {}
    [] pattern = "wait" -> allNames
    [] pattern = "mixed" -> {<<"vm", 2>>, <<"d", 3>>, <<"g", 2>>}

\* A populated project whose calls fail as given: f maps the five list
\* capabilities to "none", "client" (client creation fails) or "list" (the
\* iterator fails after the pages below); f[6] is the outcome pattern of
\* the Delete and op.Wait calls.
populated(f) ==
  [vmFail |-> f[1], vmPages |-> instancePages,
   diskFail |-> f[2], diskPages |-> diskPages,
   addrFail |-> f[3], addrPages |-> addressPages,
   gFail |-> f[4], gAddrs |-> globalAddresses,
   saFail |-> f[5], accounts |-> accountList,
   buckets |-> bucketList,
   delFail |-> deleteFailures(f[6]), waitFail |-> waitFailures(f[6])]

emptyProject ==
  [vmFail |-> "none", vmPages |-> <<>>,
   diskFail |-> "none", diskPages |-> <<>>,
   addrFail |-> "none", addrPages |-> <<>>,
   gFail |-> "none", gAddrs |-> <<>>,
   saFail |-> "none", accounts |-> <<otherAccounts[1]>>,
   buckets |-> <<>>,
   delFail |-> {}, waitFail |-> {}]

\* The provider states a project is visited in.
Scenarios ==
  { populated(<<"none", "none", "none", "none", "none", "mixed">>),
    emptyProject,
    populated(<<"list", "none", "list", "none", "none", "ok">>),
    populated(<<"client", "list", "none", "list", "list", "wait">>),
    populated(<<"none", "client", "client", "none", "client", "submit">>),
    populated(<<"none", "none", "none", "client", "none", "ok">>) }

NoInv == [vmFail |-> "unvisited"]

\* ------------------------------------------------------------------------
\* Frames
\* ------------------------------------------------------------------------

vmIdle == [pc |-> "idle", it |-> 0, instances |-> <<>>, tasks |-> <<>>, err |-> "none"]
diskIdle == [pc |-> "idle", it |-> 0, idx |-> 0, diskCount |-> 0, err |-> "none"]
addrIdle == [pc |-> "idle", it |-> 0, idx |-> 0, git |-> 0, ipCount |-> 0, err |-> "none"]
saIdle == [pc |-> "idle", targetAccounts |-> <<>>, tasks |-> <<>>, err |-> "none"]

Init ==
  /\ dryRun \in BOOLEAN
  /\ mainPc = "start"
  /\ mainIdx = 0
  /\ inv = [p \in Projects |-> NoInv]
  /\ cpPc = [p \in Projects |-> "idle"]
  /\ vm = [p \in Projects |-> vmIdle]
  /\ disk = [p \in Projects |-> diskIdle]
  /\ addr = [p \in Projects |-> addrIdle]
  /\ sa = [p \in Projects |-> saIdle]
  /\ found = {}
  /\ wouldCount = {}
  /\ listCalls = {}
  /\ delCalls = {}
  /\ warned = [p \in Projects |-> 0]
  /\ waitCalls = {}
  /\ errLog = {}

\* ------------------------------------------------------------------------
\* main (main.go:30-42)
\* ------------------------------------------------------------------------

\* Variant: cleanupProject started with a go statement, so main never waits.
cleanupProjectRunningNever == FALSE

\* main is inside a cleanupProject call it made: the call is synchronous.
cleanupProjectRunning == \E q \in Projects : cpPc[q] \notin {"idle", "returned"}

\* The start banner.
MainStart ==
  /\ mainPc = "start"
  /\ mainPc' = "loop"
  /\ UNCHANGED <<dryRun, mainIdx, inv, cpPc, vm, disk, addr, sa,
                 found, wouldCount, listCalls, delCalls, warned, waitCalls, errLog>>

\* One iteration of the range loop: the section marker and the call of
\* cleanupProject, which starts with deleteVMInstances.
MainCall(p) ==
  /\ mainPc = "loop"
  /\ p = mainIdx + 1
  /\ ~cleanupProjectRunning
  /\ mainIdx' = p
  /\ \E s \in Scenarios : inv' = [inv EXCEPT ![p] = s]
  /\ cpPc' = [cpPc EXCEPT ![p] = "vm"]
  /\ vm' = [vm EXCEPT ![p].pc = "client"]
  /\ UNCHANGED <<dryRun, mainPc, disk, addr, sa,
                 found, wouldCount, listCalls, delCalls, warned, waitCalls, errLog>>

\* The loop is over: the completion banner.
MainDone ==
  /\ mainPc = "loop"
  /\ mainIdx = Len(projectIDs)
  /\ ~cleanupProjectRunning
  /\ mainPc' = "done"
  /\ UNCHANGED <<dryRun, mainIdx, inv, cpPc, vm, disk, addr, sa,
                 found, wouldCount, listCalls, delCalls, warned, waitCalls, errLog>>

\* ------------------------------------------------------------------------
\* deleteVMInstances (main.go:81-161)
\* ------------------------------------------------------------------------

\* compute.NewInstancesRESTClient
VmClient(p) ==
  /\ vm[p].pc = "client"
  /\ vm' = [vm EXCEPT ![p] = IF inv[p].vmFail = "client"
                             THEN [@ EXCEPT !.pc = "ret", !.err = "client"]
                             ELSE [@ EXCEPT !.pc = "list"]]
  /\ UNCHANGED <<dryRun, mainPc, mainIdx, inv, cpPc, disk, addr, sa,
                 found, wouldCount, listCalls, delCalls, warned, waitCalls, errLog>>

\* The dry-run test after the collection loop.
vmDryRunReturns == dryRun

\* Variant: running instances are left out of the collected list.
instanceCollectedUnlessRunning(instance) == instance.status # "RUNNING"

\* The inner loop over the instances of a page appends every instance,
\* whatever its status.
instanceCollected(instance) == TRUE

\* Variant: a listing error ends the collecting loop like iterator.Done.
vmListErrorBreaks(p) == FALSE

\* it.Next() past the last page gives an error other than iterator.Done,
\* which makes deleteVMInstances return it.
vmListErrorReturns(p) == inv[p].vmFail = "list"

\* it.Next() of the aggregated instance list: a page is collected and
\* logged; an error returns; iterator.Done goes on to the tests on the
\* collected list and, in a live run, starts one goroutine per instance.
VmNext(p) ==
  /\ vm[p].pc = "list"
  /\ listCalls' = listCalls \cup {<<p, "instance", vm[p].it + 1>>}
  /\ IF vm[p].it < Len(inv[p].vmPages)
     THEN LET page == SelectSeq(inv[p].vmPages[vm[p].it + 1], instanceCollected)
              infos == [i \in 1..Len(page) |->
                          [name |-> page[i].name,
                           zone |-> extractZoneFromURL(page[i].zone)]]
          IN /\ vm' = [vm EXCEPT ![p].it = @ + 1,
                                 ![p].instances = @ \o infos]
             /\ found' = found \cup {<<p, "instance", page[i].name>> : i \in 1..Len(page)}
             /\ UNCHANGED wouldCount
     ELSE IF vmListErrorReturns(p)
     THEN /\ vm' = [vm EXCEPT ![p].pc = "ret", ![p].err = "list"]
          /\ UNCHANGED <<found, wouldCount>>
     ELSE IF Len(vm[p].instances) = 0
     THEN /\ vm' = [vm EXCEPT ![p].pc = "ret"]
          /\ UNCHANGED <<found, wouldCount>>
     ELSE IF vmDryRunReturns
     THEN /\ vm' = [vm EXCEPT ![p].pc = "ret"]
          /\ wouldCount' = wouldCount \cup {<<p, "instance", Len(vm[p].instances)>>}
          /\ UNCHANGED found
     ELSE /\ vm' = [vm EXCEPT ![p].pc = "wait",
                              ![p].tasks = [i \in 1..Len(vm[p].instances) |-> "del"]]
          /\ UNCHANGED <<found, wouldCount>>
  /\ UNCHANGED <<dryRun, mainPc, mainIdx, inv, cpPc, disk, addr, sa,
                 delCalls, warned, waitCalls, errLog>>

\* The provider accepts the Delete of the named resource of project p.
deleteAccepted(p, name) == name \notin inv[p].delFail

\* The provider reports the accepted Delete of the named resource as done.
waitSucceeds(p, name) == name \notin inv[p].waitFail

\* Variant: the goroutine ends once the Delete is accepted.
vmTaskAfterAcceptEnds == "end"

\* Where the goroutine of an instance goes once its Delete is accepted: to
\* op.Wait.
vmTaskAfterAccept == "wait"

\* client.Delete in the goroutine of instance i.
VmTaskDelete(p, i) ==
  /\ vm[p].pc = "wait"
  /\ i \in 1..Len(vm[p].tasks)
  /\ vm[p].tasks[i] = "del"
  /\ delCalls' = delCalls \cup {[proj |-> p, kind |-> "instance",
                                 name |-> vm[p].instances[i].name,
                                 loc |-> {vm[p].instances[i].zone}]}
  /\ LET name == vm[p].instances[i].name
     IN IF deleteAccepted(p, name)
        THEN /\ vm' = [vm EXCEPT ![p].tasks[i] = vmTaskAfterAccept]
             /\ UNCHANGED errLog
        ELSE /\ vm' = [vm EXCEPT ![p].tasks[i] = "end"]
             /\ errLog' = errLog \cup {<<p, "instance", name, "delete">>}
  /\ UNCHANGED <<dryRun, mainPc, mainIdx, inv, cpPc, disk, addr, sa,
                 found, wouldCount, listCalls, warned, waitCalls>>

\* Variant: a failed op.Wait sends the goroutine back to client.Delete.
vmTaskAfterWaitRetries(p, name) == IF waitSucceeds(p, name) THEN "end" ELSE "del"

\* Where the goroutine of an instance goes after op.Wait: it logs the
\* outcome and ends.
vmTaskAfterWait(p, name) == "end"

\* op.Wait in the goroutine of instance i; either outcome is only logged.
VmTaskWait(p, i) ==
  /\ vm[p].pc = "wait"
  /\ i \in 1..Len(vm[p].tasks)
  /\ vm[p].tasks[i] = "wait"
  /\ vm' = [vm EXCEPT ![p].tasks[i] = vmTaskAfterWait(p, vm[p].instances[i].name)]
  /\ LET name == vm[p].instances[i].name
     IN /\ waitCalls' = waitCalls \cup {<<p, "instance", name>>}
        /\ errLog' = IF waitSucceeds(p, name) THEN errLog
                     ELSE errLog \cup {<<p, "instance", name, "wait">>}
  /\ UNCHANGED <<dryRun, mainPc, mainIdx, inv, cpPc, disk, addr, sa,
                 found, wouldCount, listCalls, delCalls, warned>>

\* Variant: deleteVMInstances without its wg.Wait().
vmTasksDoneNoWait(p) == TRUE

\* wg.Wait() of deleteVMInstances has every goroutine done.
vmTasksDone(p) == \A i \in 1..Len(vm[p].tasks) : vm[p].tasks[i] = "end"

VmJoin(p) ==
  /\ vm[p].pc = "wait"
  /\ vmTasksDone(p)
  /\ vm' = [vm EXCEPT ![p].pc = "ret"]
  /\ UNCHANGED <<dryRun, mainPc, mainIdx, inv, cpPc, disk, addr, sa,
                 found, wouldCount, listCalls, delCalls, warned, waitCalls, errLog>>

\* ------------------------------------------------------------------------
\* cleanupProject (main.go:44-79)
\* ------------------------------------------------------------------------

\* Variant: cleanupProject going on only when deleteVMInstances returned nil.
vmCleanerReturnedNil(p) == vm[p].pc = "ret" /\ vm[p].err = "none"

\* The call of deleteVMInstances has returned (with nil or an error, which
\* is only logged).
vmCleanerReturned(p) == vm[p].pc = "ret"

\* The three go statements after wg.Add(3).
CpFanOut(p) ==
  /\ cpPc[p] = "vm"
  /\ vmCleanerReturned(p)
  /\ cpPc' = [cpPc EXCEPT ![p] = "others"]
  /\ disk' = [disk EXCEPT ![p].pc = "client"]
  /\ addr' = [addr EXCEPT ![p].pc = "client"]
  /\ sa' = [sa EXCEPT ![p].pc = "client"]
  /\ UNCHANGED <<dryRun, mainPc, mainIdx, inv, vm,
                 found, wouldCount, listCalls, delCalls, warned, waitCalls, errLog>>

\* Variant: cleanupProject calling deleteBuckets (main.go:348-417), which in
\* a live run deletes every object of every bucket and then the bucket.
deleteBucketsCalls(p) ==
  IF dryRun THEN {}
  ELSE UNION {{[proj |-> p, kind |-> "bucket", name |-> b.name, loc |-> {}]}
                \cup {[proj |-> p, kind |-> "object", name |-> o, loc |-> {}] :
                        o \in {b.objects[i] : i \in 1..Len(b.objects)}} :
              b \in {inv[p].buckets[i] : i \in 1..Len(inv[p].buckets)}}

\* The bucket and object delete calls cleanupProject causes: it never calls
\* deleteBuckets.
cleanupProjectBucketCalls(p) == {}

\* Variant: wg.Add(2) for the three goroutines.
othersDoneAnyTwo(p) ==
  Cardinality({c \in {"disk", "addr", "sa"} :
                 \/ c = "disk" /\ disk[p].pc = "ret"
                 \/ c = "addr" /\ addr[p].pc = "ret"
                 \/ c = "sa" /\ sa[p].pc = "ret"}) >= 2

\* Variant: a goroutine that returns an error never reaches wg.Done().
othersDoneOnSuccess(p) ==
  /\ disk[p].pc = "ret" /\ addr[p].pc = "ret" /\ sa[p].pc = "ret"
  /\ disk[p].err = "none" /\ addr[p].err = "none" /\ sa[p].err = "none"

\* wg.Wait() has the three goroutines done.
othersDone(p) == disk[p].pc = "ret" /\ addr[p].pc = "ret" /\ sa[p].pc = "ret"

\* wg.Wait() returns, the note about buckets is printed, cleanupProject
\* returns to main.
CpJoin(p) ==
  /\ cpPc[p] = "others"
  /\ othersDone(p)
  /\ cpPc' = [cpPc EXCEPT ![p] = "returned"]
  /\ warned' = [warned EXCEPT ![p] = @ + 1]
  /\ delCalls' = delCalls \cup cleanupProjectBucketCalls(p)
  /\ UNCHANGED <<dryRun, mainPc, mainIdx, inv, vm, disk, addr, sa,
                 found, wouldCount, listCalls, waitCalls, errLog>>

\* ------------------------------------------------------------------------
\* deleteDisks (main.go:163-229)
\* ------------------------------------------------------------------------

\* compute.NewDisksRESTClient
DiskClient(p) ==
  /\ disk[p].pc = "client"
  /\ disk' = [disk EXCEPT ![p] = IF inv[p].diskFail = "client"
                                 THEN [@ EXCEPT !.pc = "ret", !.err = "client"]
                                 ELSE [@ EXCEPT !.pc = "list"]]
  /\ UNCHANGED <<dryRun, mainPc, mainIdx, inv, cpPc, vm, addr, sa,
                 found, wouldCount, listCalls, delCalls, warned, waitCalls, errLog>>

\* Variant: the delete of a disk not guarded by the dry-run flag.
diskDeleteWantedAlways(dry) == TRUE

\* The test guarding the delete of a counted disk.
diskDeleteWanted(dry) == ~dry

RECURSIVE scanDisksCountFirst(_, _, _, _, _)
\* Variant: diskCount++ placed before the test for attached disks.
scanDisksCountFirst(page, i, count, names, dry) ==
  IF i > Len(page) THEN [idx |-> 0, count |-> count, names |-> names]
  ELSE IF Len(page[i].users) > 0
       THEN scanDisksCountFirst(page, i + 1, count + 1, names, dry)
  ELSE IF ~dry
       THEN [idx |-> i, count |-> count + 1, names |-> names \cup {page[i].name}]
       ELSE scanDisksCountFirst(page, i + 1, count + 1, names \cup {page[i].name}, dry)

RECURSIVE scanDisks(_, _, _, _, _)
\* The inner loop over the disks of a page from position i on, up to the
\* next Delete call: attached disks are skipped, the others counted and
\* logged.  idx is the disk whose Delete is due, 0 when the page is done.
scanDisks(page, i, count, names, dry) ==
  IF i > Len(page) THEN [idx |-> 0, count |-> count, names |-> names]
  ELSE IF diskAttached(page[i]) THEN scanDisks(page, i + 1, count, names, dry)
  ELSE IF diskDeleteWanted(dry)
       THEN [idx |-> i, count |-> count + 1, names |-> names \cup {page[i].name}]
       ELSE scanDisks(page, i + 1, count + 1, names \cup {page[i].name}, dry)

\* The loop goes on after position i of the current page.
DiskContinue(p, i) ==
  LET page == inv[p].diskPages[disk[p].it]
      r == scanDisks(page, i, disk[p].diskCount, {}, dryRun)
  IN /\ disk' = [disk EXCEPT ![p].pc = IF r.idx = 0 THEN "list" ELSE "del",
                             ![p].idx = r.idx,
                             ![p].diskCount = r.count]
     /\ found' = found \cup {<<p, "disk", n>> : n \in r.names}

\* it.Next() of the aggregated disk list.
DiskNext(p) ==
  /\ disk[p].pc = "list"
  /\ listCalls' = listCalls \cup {<<p, "disk", disk[p].it + 1>>}
  /\ IF disk[p].it < Len(inv[p].diskPages)
     THEN LET page == inv[p].diskPages[disk[p].it + 1]
              r == scanDisks(page, 1, disk[p].diskCount, {}, dryRun)
          IN /\ disk' = [disk EXCEPT ![p].pc = IF r.idx = 0 THEN "list" ELSE "del",
                                     ![p].it = @ + 1,
                                     ![p].idx = r.idx,
                                     ![p].diskCount = r.count]
             /\ found' = found \cup {<<p, "disk", n>> : n \in r.names}
             /\ UNCHANGED wouldCount
     ELSE IF inv[p].diskFail = "list"
     THEN /\ disk' = [disk EXCEPT ![p].pc = "ret", ![p].err = "list"]
          /\ UNCHANGED <<found, wouldCount>>
     ELSE /\ disk' = [disk EXCEPT ![p].pc = "ret"]
          /\ wouldCount' = IF disk[p].diskCount # 0 /\ dryRun
                           THEN wouldCount \cup {<<p, "disk", disk[p].diskCount>>}
                           ELSE wouldCount
          /\ UNCHANGED found
  /\ UNCHANGED <<dryRun, mainPc, mainIdx, inv, cpPc, vm, addr, sa,
                 delCalls, warned, waitCalls, errLog>>

\* Variant: a failed client.Delete makes deleteDisks return the error.
diskAfterDeleteErrorReturns(p) ==
  /\ disk' = [disk EXCEPT ![p].pc = "ret", ![p].err = "delete"]
  /\ UNCHANGED found

\* The "continue" after a failed client.Delete of the current disk.
diskAfterDeleteError(p) == DiskContinue(p, disk[p].idx + 1)

\* Variant: the loop goes on to the next disk without op.Wait.
diskAfterAcceptGoesOn(p) == DiskContinue(p, disk[p].idx + 1)

\* After an accepted client.Delete the loop calls op.Wait for the disk.
diskAfterAccept(p) ==
  /\ disk' = [disk EXCEPT ![p].pc = "wait"]
  /\ UNCHANGED found

\* client.Delete for the current disk: on an error the loop continues with
\* the next disk.
DiskDelete(p) ==
  /\ disk[p].pc = "del"
  /\ LET d == inv[p].diskPages[disk[p].it][disk[p].idx]
     IN /\ delCalls' = delCalls \cup {[proj |-> p, kind |-> "disk", name |-> d.name,
                                       loc |-> {extractZoneFromURL(d.zone)}]}
        /\ IF deleteAccepted(p, d.name)
           THEN /\ diskAfterAccept(p)
                /\ UNCHANGED errLog
           ELSE /\ diskAfterDeleteError(p)
                /\ errLog' = errLog \cup {<<p, "disk", d.name, "delete">>}
  /\ UNCHANGED <<dryRun, mainPc, mainIdx, inv, cpPc, vm, addr, sa,
                 wouldCount, listCalls, warned, waitCalls>>

\* op.Wait for the current disk; either outcome is only logged.
DiskWait(p) ==
  /\ disk[p].pc = "wait"
  /\ DiskContinue(p, disk[p].idx + 1)
  /\ LET d == inv[p].diskPages[disk[p].it][disk[p].idx]
     IN /\ waitCalls' = waitCalls \cup {<<p, "disk", d.name>>}
        /\ errLog' = IF waitSucceeds(p, d.name) THEN errLog
                     ELSE errLog \cup {<<p, "disk", d.name, "wait">>}
  /\ UNCHANGED <<dryRun, mainPc, mainIdx, inv, cpPc, vm, addr, sa,
                 wouldCount, listCalls, delCalls, warned>>

\* ------------------------------------------------------------------------
\* releaseStaticIPs (main.go:231-346)
\* ------------------------------------------------------------------------

\* compute.NewAddressesRESTClient
AddrClient(p) ==
  /\ addr[p].pc = "client"
  /\ addr' = [addr EXCEPT ![p] = IF inv[p].addrFail = "client"
                                 THEN [@ EXCEPT !.pc = "ret", !.err = "client"]
                                 ELSE [@ EXCEPT !.pc = "list"]]
  /\ UNCHANGED <<dryRun, mainPc, mainIdx, inv, cpPc, vm, disk, sa,
                 found, wouldCount, listCalls, delCalls, warned, waitCalls, errLog>>

\* The test guarding the delete of a counted address, in both loops.
addressDeleteWanted(dry) == ~dry

RECURSIVE scanAddresses(_, _, _, _, _)
\* The inner loop over the addresses of a page from position i on, up to
\* the next Delete call.
scanAddresses(page, i, count, names, dry) ==
  IF i > Len(page) THEN [idx |-> 0, count |-> count, names |-> names]
  ELSE IF addressInUse(page[i]) THEN scanAddresses(page, i + 1, count, names, dry)
  ELSE IF addressDeleteWanted(dry)
       THEN [idx |-> i, count |-> count + 1, names |-> names \cup {page[i].name}]
       ELSE scanAddresses(page, i + 1, count + 1, names \cup {page[i].name}, dry)

\* The region-scoped loop goes on after position i of the current page.
AddrContinue(p, i) ==
  LET page == inv[p].addrPages[addr[p].it]
      r == scanAddresses(page, i, addr[p].ipCount, {}, dryRun)
  IN /\ addr' = [addr EXCEPT ![p].pc = IF r.idx = 0 THEN "list" ELSE "del",
                             ![p].idx = r.idx,
                             ![p].ipCount = r.count]
     /\ found' = found \cup {<<p, "address", n>> : n \in r.names}

\* it.Next() of the aggregated address list; iterator.Done leads to the
\* creation of the global addresses client.
AddrNext(p) ==
  /\ addr[p].pc = "list"
  /\ listCalls' = listCalls \cup {<<p, "address", addr[p].it + 1>>}
  /\ IF addr[p].it < Len(inv[p].addrPages)
     THEN LET page == inv[p].addrPages[addr[p].it + 1]
              r == scanAddresses(page, 1, addr[p].ipCount, {}, dryRun)
          IN /\ addr' = [addr EXCEPT ![p].pc = IF r.idx = 0 THEN "list" ELSE "del",
                                     ![p].it = @ + 1,
                                     ![p].idx = r.idx,
                                     ![p].ipCount = r.count]
             /\ found' = found \cup {<<p, "address", n>> : n \in r.names}
     ELSE IF inv[p].addrFail = "list"
     THEN /\ addr' = [addr EXCEPT ![p].pc = "ret", ![p].err = "list"]
          /\ UNCHANGED found
     ELSE /\ addr' = [addr EXCEPT ![p].pc = "gclient"]
          /\ UNCHANGED found
  /\ UNCHANGED <<dryRun, mainPc, mainIdx, inv, cpPc, vm, disk, sa,
                 wouldCount, delCalls, warned, waitCalls, errLog>>

\* Variant: the region-scoped loop goes on without op.Wait.
addrAfterAcceptGoesOn(p) == AddrContinue(p, addr[p].idx + 1)

\* After an accepted client.Delete the loop calls op.Wait for the address.
addrAfterAccept(p) ==
  /\ addr' = [addr EXCEPT ![p].pc = "wait"]
  /\ UNCHANGED found

\* client.Delete for the current region-scoped address.
AddrDelete(p) ==
  /\ addr[p].pc = "del"
  /\ LET a == inv[p].addrPages[addr[p].it][addr[p].idx]
     IN /\ delCalls' = delCalls \cup {[proj |-> p, kind |-> "address", name |-> a.name,
                                       loc |-> {extractRegionFromURL(a.region)}]}
        /\ IF deleteAccepted(p, a.name)
           THEN /\ addrAfterAccept(p)
                /\ UNCHANGED errLog
           ELSE /\ AddrContinue(p, addr[p].idx + 1)
                /\ errLog' = errLog \cup {<<p, "address", a.name, "delete">>}
  /\ UNCHANGED <<dryRun, mainPc, mainIdx, inv, cpPc, vm, disk, sa,
                 wouldCount, listCalls, warned, waitCalls>>

\* op.Wait for the current region-scoped address.
AddrWait(p) ==
  /\ addr[p].pc = "wait"
  /\ AddrContinue(p, addr[p].idx + 1)
  /\ LET a == inv[p].addrPages[addr[p].it][addr[p].idx]
     IN /\ waitCalls' = waitCalls \cup {<<p, "address", a.name>>}
        /\ errLog' = IF waitSucceeds(p, a.name) THEN errLog
                     ELSE errLog \cup {<<p, "address", a.name, "wait">>}
  /\ UNCHANGED <<dryRun, mainPc, mainIdx, inv, cpPc, vm, disk, sa,
                 wouldCount, listCalls, delCalls, warned>>

\* compute.NewGlobalAddressesRESTClient
AddrGlobalClient(p) ==
  /\ addr[p].pc = "gclient"
  /\ addr' = [addr EXCEPT ![p] = IF inv[p].gFail = "client"
                                 THEN [@ EXCEPT !.pc = "ret", !.err = "gclient"]
                                 ELSE [@ EXCEPT !.pc = "glist"]]
  /\ UNCHANGED <<dryRun, mainPc, mainIdx, inv, cpPc, vm, disk, sa,
                 found, wouldCount, listCalls, delCalls, warned, waitCalls, errLog>>

\* The report after the global loop, then return nil.
AddrReport(p) ==
  /\ addr' = [addr EXCEPT ![p].pc = "ret"]
  /\ wouldCount' = IF addr[p].ipCount # 0 /\ dryRun
                   THEN wouldCount \cup {<<p, "address", addr[p].ipCount>>}
                   ELSE wouldCount

\* Variant: an error of globalIt.Next() makes releaseStaticIPs return it.
globalListErrorReturns(p) ==
  /\ addr' = [addr EXCEPT ![p].pc = "ret", ![p].err = "glist"]
  /\ UNCHANGED wouldCount

\* An error of globalIt.Next() other than iterator.Done is logged and
\* breaks the loop: the report follows.
globalListError(p) == AddrReport(p)

\* globalIt.Next(): one global address per call.  An error is logged and
\* breaks the loop.
AddrGlobalNext(p) ==
  /\ addr[p].pc = "glist"
  /\ listCalls' = listCalls \cup {<<p, "globalAddress", addr[p].git + 1>>}
  /\ IF addr[p].git < Len(inv[p].gAddrs)
     THEN LET g == inv[p].gAddrs[addr[p].git + 1]
          IN IF globalAddressInUse(g)
             THEN /\ addr' = [addr EXCEPT ![p].git = @ + 1]
                  /\ UNCHANGED <<found, wouldCount>>
             ELSE /\ addr' = [addr EXCEPT ![p].git = @ + 1,
                                          ![p].ipCount = @ + 1,
                                          ![p].pc = IF addressDeleteWanted(dryRun)
                                                    THEN "gdel" ELSE "glist"]
                  /\ found' = found \cup {<<p, "globalAddress", g.name>>}
                  /\ UNCHANGED wouldCount
     ELSE /\ IF inv[p].gFail = "list" THEN globalListError(p) ELSE AddrReport(p)
          /\ UNCHANGED found
  /\ UNCHANGED <<dryRun, mainPc, mainIdx, inv, cpPc, vm, disk, sa,
                 delCalls, warned, waitCalls, errLog>>

\* globalClient.Delete for the current global address: no region.
AddrGlobalDelete(p) ==
  /\ addr[p].pc = "gdel"
  /\ delCalls' = delCalls \cup {[proj |-> p, kind |-> "globalAddress",
                                 name |-> inv[p].gAddrs[addr[p].git].name,
                                 loc |-> {}]}
  /\ LET name == inv[p].gAddrs[addr[p].git].name
     IN IF deleteAccepted(p, name)
        THEN /\ addr' = [addr EXCEPT ![p].pc = "gwait"]
             /\ UNCHANGED errLog
        ELSE /\ addr' = [addr EXCEPT ![p].pc = "glist"]
             /\ errLog' = errLog \cup {<<p, "globalAddress", name, "delete">>}
  /\ UNCHANGED <<dryRun, mainPc, mainIdx, inv, cpPc, vm, disk, sa,
                 found, wouldCount, listCalls, warned, waitCalls>>

\* op.Wait for the current global address.
AddrGlobalWait(p) ==
  /\ addr[p].pc = "gwait"
  /\ addr' = [addr EXCEPT ![p].pc = "glist"]
  /\ LET name == inv[p].gAddrs[addr[p].git].name
     IN /\ waitCalls' = waitCalls \cup {<<p, "globalAddress", name>>}
        /\ errLog' = IF waitSucceeds(p, name) THEN errLog
                     ELSE errLog \cup {<<p, "globalAddress", name, "wait">>}
  /\ UNCHANGED <<dryRun, mainPc, mainIdx, inv, cpPc, vm, disk, sa,
                 found, wouldCount, listCalls, delCalls, warned>>

\* ------------------------------------------------------------------------
\* deleteServiceAccounts (main.go:445-499)
\* ------------------------------------------------------------------------

\* iam.NewService
SaClient(p) ==
  /\ sa[p].pc = "client"
  /\ sa' = [sa EXCEPT ![p] = IF inv[p].saFail = "client"
                             THEN [@ EXCEPT !.pc = "ret", !.err = "client"]
                             ELSE [@ EXCEPT !.pc = "list"]]
  /\ UNCHANGED <<dryRun, mainPc, mainIdx, inv, cpPc, vm, disk, addr,
                 found, wouldCount, listCalls, delCalls, warned, waitCalls, errLog>>

\* The dry-run test after the filter.
saDryRunReturns == dryRun

\* ServiceAccounts.List(...).Do(), the filter, the tests on the filtered
\* list and, in a live run, the start of one goroutine per target account.
SaList(p) ==
  /\ sa[p].pc = "list"
  /\ listCalls' = listCalls \cup {<<p, "serviceAccount", 1>>}
  /\ IF inv[p].saFail = "list"
     THEN /\ sa' = [sa EXCEPT ![p].pc = "ret", ![p].err = "list"]
          /\ UNCHANGED <<found, wouldCount>>
     ELSE LET targetAccounts == SelectSeq(inv[p].accounts, saIsTarget)
          IN /\ found' = found \cup {<<p, "serviceAccount", targetAccounts[i].name>> :
                                       i \in 1..Len(targetAccounts)}
             /\ IF Len(targetAccounts) = 0
                THEN /\ sa' = [sa EXCEPT ![p].pc = "ret"]
                     /\ UNCHANGED wouldCount
                ELSE IF saDryRunReturns
                THEN /\ sa' = [sa EXCEPT ![p].pc = "ret",
                                         ![p].targetAccounts = targetAccounts]
                     /\ wouldCount' = wouldCount \cup
                                        {<<p, "serviceAccount", Len(targetAccounts)>>}
                ELSE /\ sa' = [sa EXCEPT ![p].pc = "wait",
                                         ![p].targetAccounts = targetAccounts,
                                         ![p].tasks = [i \in 1..Len(targetAccounts) |-> "del"]]
                     /\ UNCHANGED wouldCount
  /\ UNCHANGED <<dryRun, mainPc, mainIdx, inv, cpPc, vm, disk, addr,
                 delCalls, warned, waitCalls, errLog>>

\* ServiceAccounts.Delete(account.Name).Do() in the goroutine of target
\* account i; either outcome is only logged.
SaTaskDelete(p, i) ==
  /\ sa[p].pc = "wait"
  /\ i \in 1..Len(sa[p].tasks)
  /\ sa[p].tasks[i] = "del"
  /\ delCalls' = delCalls \cup {[proj |-> p, kind |-> "serviceAccount",
                                 name |-> sa[p].targetAccounts[i].name,
                                 loc |-> {}]}
  /\ sa' = [sa EXCEPT ![p].tasks[i] = "end"]
  /\ LET name == sa[p].targetAccounts[i].name
     IN errLog' = IF deleteAccepted(p, name) THEN errLog
                  ELSE errLog \cup {<<p, "serviceAccount", name, "delete">>}
  /\ UNCHANGED <<dryRun, mainPc, mainIdx, inv, cpPc, vm, disk, addr,
                 found, wouldCount, listCalls, warned, waitCalls>>

\* wg.Wait() of deleteServiceAccounts has every goroutine done.
saTasksDone(p) == \A i \in 1..Len(sa[p].tasks) : sa[p].tasks[i] = "end"

SaJoin(p) ==
  /\ sa[p].pc = "wait"
  /\ saTasksDone(p)
  /\ sa' = [sa EXCEPT ![p].pc = "ret"]
  /\ UNCHANGED <<dryRun, mainPc, mainIdx, inv, cpPc, vm, disk, addr,
                 found, wouldCount, listCalls, delCalls, warned, waitCalls, errLog>>

\* ------------------------------------------------------------------------
\* The program
\* ------------------------------------------------------------------------

Next ==
  \/ MainStart
  \/ \E p \in Projects : MainCall(p)
  \/ MainDone
  \/ \E p \in Projects : VmClient(p)
  \/ \E p \in Projects : VmNext(p)
  \/ \E p \in Projects : \E i \in 1..Len(vm[p].tasks) : VmTaskDelete(p, i)
  \/ \E p \in Projects : \E i \in 1..Len(vm[p].tasks) : VmTaskWait(p, i)
  \/ \E p \in Projects : VmJoin(p)
  \/ \E p \in Projects : CpFanOut(p)
  \/ \E p \in Projects : CpJoin(p)
  \/ \E p \in Projects : DiskClient(p)
  \/ \E p \in Projects : DiskNext(p)
  \/ \E p \in Projects : DiskDelete(p)
  \/ \E p \in Projects : DiskWait(p)
  \/ \E p \in Projects : AddrClient(p)
  \/ \E p \in Projects : AddrNext(p)
  \/ \E p \in Projects : AddrDelete(p)
  \/ \E p \in Projects : AddrWait(p)
  \/ \E p \in Projects : AddrGlobalClient(p)
  \/ \E p \in Projects : AddrGlobalNext(p)
  \/ \E p \in Projects : AddrGlobalDelete(p)
  \/ \E p \in Projects : AddrGlobalWait(p)
  \/ \E p \in Projects : SaClient(p)
  \/ \E p \in Projects : SaList(p)
  \/ \E p \in Projects : \E i \in 1..Len(sa[p].tasks) : SaTaskDelete(p, i)
  \/ \E p \in Projects : SaJoin(p)

Spec == Init /\ [][Next]_vars

\* Every provider call returns and the scheduler runs every goroutine that
\* can take a step.
FairSpec == Spec /\ WF_vars(Next)

\* ------------------------------------------------------------------------
\* Properties
\* ------------------------------------------------------------------------

otherKinds == {"disk", "address", "globalAddress", "serviceAccount"}

DeletesOf(p, k) == {c \in delCalls : c.proj = p /\ c.kind = k}

DeletedNames(p, k) == {c.name : c \in DeletesOf(p, k)}

FoundNames(p, k) == {f[3] : f \in {g \in found : g[1] = p /\ g[2] = k}}

Visited == {p \in Projects : cpPc[p] # "idle"}

Items(pages) == UNION {{pages[i][j] : j \in 1..Len(pages[i])} : i \in 1..Len(pages)}

Elems(seq) == {seq[i] : i \in 1..Len(seq)}

ShippedConfigDeletesNothing == (dryRun = dryRunShipped) => delCalls = {}

\* A step that issues a list or delete call of the disk, address or service
\* account cleaner of project p.
OtherCallIssued(p) ==
  \/ \E c \in delCalls' \ delCalls : c.proj = p /\ c.kind \in otherKinds
  \/ \E l \in listCalls' \ listCalls : l[1] = p /\ l[2] \in otherKinds

OtherCalls(p) ==
  {c \in delCalls : c.proj = p /\ c.kind \in otherKinds}
    \cup {l \in listCalls : l[1] = p /\ l[2] \in otherKinds}

\* C3: within a project, a disk, address or service account call is issued
\* only when deleteVMInstances has returned with every instance goroutine
\* (Delete and Wait) finished, and no instance delete is issued afterwards.
InstanceDeletesBeforeOthers ==
  [][\A p \in Projects :
       /\ OtherCallIssued(p) =>
            /\ vm[p].pc = "ret"
            /\ \A i \in 1..Len(vm[p].tasks) : vm[p].tasks[i] = "end"
       /\ OtherCalls(p) # {} => DeletesOf(p, "instance")' = DeletesOf(p, "instance")]_vars

\* A live project in which every instance was deleted and a disk delete
\* followed.
InstanceDeletesBeforeOthersWitness ==
  \E p \in Projects :
    /\ Cardinality(DeletesOf(p, "instance")) = NumInstances
    /\ DeletesOf(p, "disk") # {}
    /\ DeletesOf(p, "serviceAccount") # {}

\* C4: a disk listed with one or more users is never logged as found, never
\* counted and never deleted, whatever its size and zone and in both modes.
AttachedDiskNeverCandidate ==
  \A p \in Visited :
    /\ \A d \in Items(inv[p].diskPages) :
         Len(d.users) >= 1 =>
           /\ d.name \notin FoundNames(p, "disk")
           /\ d.name \notin DeletedNames(p, "disk")
    /\ disk[p].diskCount = Cardinality(FoundNames(p, "disk"))

\* The disk cleaner went through both pages, which hold attached disks of
\* two sizes and zones, and counted the others.
AttachedDiskNeverCandidateWitness ==
  \E p \in Projects :
    /\ disk[p].pc = "ret"
    /\ disk[p].it = 2
    /\ disk[p].diskCount = 2
    /\ \E d \in Items(inv[p].diskPages) : Len(d.users) = 2

\* C5: an address listed with status IN_USE, region-scoped or global, is
\* never logged as found, never counted and never deleted.
InUseAddressNeverCandidate ==
  \A p \in Visited :
    /\ \A a \in Items(inv[p].addrPages) :
         a.status = "IN_USE" =>
           /\ a.name \notin FoundNames(p, "address")
           /\ a.name \notin DeletedNames(p, "address")
    /\ \A g \in Elems(inv[p].gAddrs) :
         g.status = "IN_USE" =>
           /\ g.name \notin FoundNames(p, "globalAddress")
           /\ g.name \notin DeletedNames(p, "globalAddress")
    /\ addr[p].ipCount =
         Cardinality(FoundNames(p, "address")) + Cardinality(FoundNames(p, "globalAddress"))

\* The address cleaner went through both scopes, each with an address in use
\* and one that is not.
InUseAddressNeverCandidateWitness ==
  \E p \in Projects :
    /\ addr[p].pc = "ret"
    /\ addr[p].git = 2
    /\ addr[p].ipCount = 2
    /\ \E a \in Items(inv[p].addrPages) : a.status = "IN_USE"
    /\ \E g \in Elems(inv[p].gAddrs) : g.status = "IN_USE"

\* The part of an email before its first "@" (the whole email without one).
LocalPart(email) ==
  LET ats == {i \in 1..Len(email) : email[i] = "@"}
  IN IF ats = {} THEN email
     ELSE SubSeq(email, 1, (CHOOSE i \in ats : \A j \in ats : i <= j) - 1)

StartsWithTag(s) ==
  \A i \in 1..Len(saPrefix) : i <= Len(s) /\ s[i] = saPrefix[i]

\* C6: once the accounts are listed, an account is a candidate exactly when
\* its email local part starts with "vsa-sa-gcnv", and only such accounts
\* are deleted.
ServiceAccountCandidateIffPrefix ==
  \A p \in Visited :
    /\ (sa[p].pc \in {"wait", "ret"} /\ sa[p].err = "none") =>
         \A a \in Elems(inv[p].accounts) :
           a.name \in FoundNames(p, "serviceAccount") <=> StartsWithTag(LocalPart(a.email))
    /\ \A n \in DeletedNames(p, "serviceAccount") :
         \E a \in Elems(inv[p].accounts) :
           a.name = n /\ StartsWithTag(LocalPart(a.email))

\* A live run deleted every tagged account of a project that also has
\* accounts without the tag, one with the tag after the "@".
ServiceAccountCandidateIffPrefixWitness ==
  \E p \in Projects :
    /\ sa[p].pc = "ret"
    /\ Cardinality(DeletedNames(p, "serviceAccount")) = NumTargetAccounts
    /\ Cardinality(Elems(inv[p].accounts)) > NumTargetAccounts
    /\ \E a \in Elems(inv[p].accounts) :
         ~StartsWithTag(LocalPart(a.email)) /\ \E i \in 1..Len(a.email) : a.email[i] = "-"

Cand(p, k) ==
  CASE k = "instance" ->
         IF inv[p].vmFail = "client" THEN {}
         ELSE {x.name : x \in Items(inv[p].vmPages)}
    [] k = "disk" ->
         IF inv[p].diskFail = "client" THEN {}
         ELSE {d.name : d \in {x \in Items(inv[p].diskPages) : x.users = <<>>}}
    [] k = "address" ->
         IF inv[p].addrFail = "client" THEN {}
         ELSE {a.name : a \in {x \in Items(inv[p].addrPages) : x.status # "IN_USE"}}
    [] k = "globalAddress" ->
         IF inv[p].addrFail # "none" \/ inv[p].gFail = "client" THEN {}
         ELSE {g.name : g \in {x \in Elems(inv[p].gAddrs) : x.status # "IN_USE"}}
    [] k = "serviceAccount" ->
         IF inv[p].saFail # "none" THEN {}
         ELSE {a.name : a \in {x \in Elems(inv[p].accounts) :
                                 StartsWithTag(LocalPart(x.email))}}

\* The number a printed "Would delete/release n" line of kind k stands for;
\* the address line covers both scopes.
CandCount(p, k) ==
  IF k = "address"
  THEN Cardinality(Cand(p, "address")) + Cardinality(Cand(p, "globalAddress"))
  ELSE Cardinality(Cand(p, k))

\* The enumeration of kind k went through, so that its count line is due.
Enumerated(p, k) ==
  CASE k = "instance" -> inv[p].vmFail = "none"
    [] k = "disk" -> inv[p].diskFail = "none"
    [] k = "address" -> inv[p].addrFail = "none" /\ inv[p].gFail # "client"
    [] k = "serviceAccount" -> inv[p].saFail = "none"

CountKinds == {"instance", "disk", "address", "serviceAccount"}

\* What a dry run reports for a project it is through with: the found lines
\* and the count lines.
DryRunReports(p) ==
  /\ \A k \in otherKinds \cup {"instance"} : FoundNames(p, k) = Cand(p, k)
  /\ {c \in wouldCount : c[1] = p} =
       {<<p, k, CandCount(p, k)>> : k \in {j \in CountKinds :
                                            Enumerated(p, j) /\ CandCount(p, j) > 0}}

\* C8 as stated: for the same provider answers, the resources a dry run
\* reports (and the counts it prints) are those a live run issues deletes for.
DryRunReportsWhatLiveRunDeletes ==
  \A p \in Projects :
    cpPc[p] = "returned" =>
      /\ dryRun => DryRunReports(p)
      /\ ~dryRun =>
           /\ \A k \in otherKinds \cup {"instance"} : DeletedNames(p, k) = Cand(p, k)
           /\ \A c \in wouldCount : c[1] # p

\* C8 amended: as stated, except that when the instance listing fails the
\* live run issues no instance delete, while the dry run has reported the
\* instances listed before the failure.
DryRunReportsWhatLiveRunDeletesUnlessVmListFails ==
  \A p \in Projects :
    cpPc[p] = "returned" =>
      /\ dryRun => DryRunReports(p)
      /\ ~dryRun =>
           /\ \A k \in otherKinds : DeletedNames(p, k) = Cand(p, k)
           /\ DeletedNames(p, "instance") =
                IF inv[p].vmFail = "list" THEN {} ELSE Cand(p, "instance")
           /\ \A c \in wouldCount : c[1] # p

\* A live run is through with a project whose instance listing failed after
\* instances were listed, and with one where every listing went through.
DryRunReportsWhatLiveRunDeletesWitness ==
  /\ ~dryRun
  /\ \E p \in Projects :
       /\ cpPc[p] = "returned"
       /\ inv[p].vmFail = "list"
       /\ FoundNames(p, "instance") # {}
       /\ DeletedNames(p, "disk") # {}
  /\ \E p \in Projects :
       /\ cpPc[p] = "returned"
       /\ \A k \in otherKinds \cup {"instance"} : DeletedNames(p, k) # {}

\* A step that issues a list or delete call for project p.
CallIssued(p) ==
  \/ \E c \in delCalls' \ delCalls : c.proj = p
  \/ \E l \in listCalls' \ listCalls : l[1] = p

\* No cleaner, and no delete goroutine, of project q is running.
Quiet(q) ==
  /\ vm[q].pc \in {"idle", "ret"}
  /\ disk[q].pc \in {"idle", "ret"}
  /\ addr[q].pc \in {"idle", "ret"}
  /\ sa[q].pc \in {"idle", "ret"}
  /\ \A i \in 1..Len(vm[q].tasks) : vm[q].tasks[i] = "end"
  /\ \A i \in 1..Len(sa[q].tasks) : sa[q].tasks[i] = "end"

\* C10: a list or delete call for a project is issued only when every
\* earlier project has returned with nothing of it running, and no later
\* project has been started.
ProjectsStrictlyInOrder ==
  [][\A p \in Projects :
       CallIssued(p) =>
         /\ \A q \in Projects : q < p => cpPc[q] = "returned" /\ Quiet(q)
         /\ \A q \in Projects : q > p => cpPc[q] = "idle" /\ Quiet(q)]_vars

\* A live run that issued deletes for the first and for the last project.
ProjectsStrictlyInOrderWitness ==
  /\ \E c \in delCalls : c.proj = 1
  /\ \E c \in delCalls : c.proj = Len(projectIDs)
  /\ \E l \in listCalls : l[1] = 2

\* C9: provided every provider call returns, every run reaches the
\* completion banner, with every configured project processed, whatever
\* client creations, listings, deletes and waits failed.
RunCompletes == <>(mainPc = "done" /\ \A p \in Projects : cpPc[p] = "returned")


\* Every project returned, among them one whose instance client could not be
\* created and one whose address listing failed, with deletes issued.
RunCompletesWitness ==
  /\ mainPc = "done"
  /\ \E p \in Projects : vm[p].err = "client"
  /\ \E p \in Projects : addr[p].err = "list"
  /\ delCalls # {}

\* The cleaner that handles kind k has returned for project p.
CleanerReturned(p, k) ==
  CASE k = "instance" -> vm[p].pc = "ret"
    [] k = "disk" -> disk[p].pc = "ret"
    [] k \in {"address", "globalAddress"} -> addr[p].pc = "ret"
    [] k = "serviceAccount" -> sa[p].pc = "ret"

\* The kinds handled by the cleaner that handles kind k.
KindsOfCleaner(k) ==
  IF k \in {"address", "globalAddress"} THEN {"address", "globalAddress"} ELSE {k}

\* C11: in a live run, once a cleaner that logged a failed delete (refused
\* at submission or failed in the wait) has returned, every candidate it
\* enumerated has had its delete call issued.
FailedDeleteSparesSiblings ==
  \A e \in errLog :
    (~dryRun /\ CleanerReturned(e[1], e[2])) =>
      \A k \in KindsOfCleaner(e[2]) : Cand(e[1], k) \subseteq DeletedNames(e[1], k)

\* A project in which the first delete of every cleaner was refused, a wait
\* failed, and the other candidates were deleted all the same.
FailedDeleteSparesSiblingsWitness ==
  \E p \in Projects :
    /\ cpPc[p] = "returned"
    /\ {<<p, "instance", <<"vm", 1>>, "delete">>, <<p, "disk", <<"d", 2>>, "delete">>,
        <<p, "address", <<"a", 2>>, "delete">>, <<p, "serviceAccount", <<"t", 1>>, "delete">>,
        <<p, "disk", <<"d", 3>>, "wait">>} \subseteq errLog
    /\ {<<"vm", 2>>} \subseteq DeletedNames(p, "instance")
    /\ {<<"d", 3>>} \subseteq DeletedNames(p, "disk")
    /\ {<<"g", 2>>} \subseteq DeletedNames(p, "globalAddress")
    /\ {<<"t", 2>>} \subseteq DeletedNames(p, "serviceAccount")

\* A listing of project p failed outright.
EnumerationFailed(p) ==
  \/ vm[p].err = "list"
  \/ disk[p].err = "list"
  \/ addr[p].err = "list"
  \/ sa[p].err = "list"

\* Every cleaner of project q was started, has returned, and returned an
\* error only for a failure of its own client creation or listing; every
\* cleaner that got its client has issued its list call.
CleanersRanToCompletion(q) ==
  /\ cpPc[q] = "returned"
  /\ vm[q].pc = "ret" /\ vm[q].err = inv[q].vmFail
  /\ disk[q].pc = "ret" /\ disk[q].err = inv[q].diskFail
  /\ addr[q].pc = "ret"
  /\ addr[q].err = IF inv[q].addrFail # "none" THEN inv[q].addrFail
                   ELSE IF inv[q].gFail = "client" THEN "gclient" ELSE "none"
  /\ sa[q].pc = "ret" /\ sa[q].err = inv[q].saFail
  /\ inv[q].vmFail # "client" => <<q, "instance", 1>> \in listCalls
  /\ inv[q].diskFail # "client" => <<q, "disk", 1>> \in listCalls
  /\ inv[q].addrFail # "client" => <<q, "address", 1>> \in listCalls
  /\ inv[q].saFail # "client" => <<q, "serviceAccount", 1>> \in listCalls

\* C12: once a listing of one resource type has failed in a project, the
\* run never stops short of the completion banner, the project returns only
\* with its other cleaners started and run to completion, and the run ends
\* only with all cleaners of the later projects started and run to
\* completion.
EnumerationFailureIsLocal ==
  \A p \in Projects :
    EnumerationFailed(p) =>
      /\ mainPc # "done" => ENABLED Next
      /\ cpPc[p] = "returned" => CleanersRanToCompletion(p)
      /\ mainPc = "done" => \A q \in Projects : q >= p => CleanersRanToCompletion(q)

\* The run is over; in an earlier project the instance listing failed while
\* its disk and service account cleaners deleted their candidates, and in
\* another the disk listing failed while its address cleaner deleted.
EnumerationFailureIsLocalWitness ==
  /\ mainPc = "done"
  /\ \E p \in Projects :
       /\ p < Len(projectIDs)
       /\ vm[p].err = "list"
       /\ disk[p].err = "none" /\ DeletedNames(p, "disk") # {}
       /\ sa[p].err = "none" /\ DeletedNames(p, "serviceAccount") # {}
  /\ \E p \in Projects :
       /\ disk[p].err = "list"
       /\ addr[p].err = "none" /\ DeletedNames(p, "address") # {}
  /\ DeletesOf(Len(projectIDs), "instance") # {}

\* C13: cleanupProject goes idle (NotStarted) -> vm (VMsCompleting) ->
\* others (OthersRunning) -> returned (Done), enters others only with the VM
\* cleaner returned, and enters returned only with the disk, address and
\* service account cleaners all returned, with or without an error.
OrchestratorStateMachine ==
  [][\A p \in Projects :
       /\ cpPc'[p] # cpPc[p] =>
            <<cpPc[p], cpPc'[p]>> \in
              {<<"idle", "vm">>, <<"vm", "others">>, <<"others", "returned">>}
       /\ (cpPc[p] = "vm" /\ cpPc'[p] = "others") => vm[p].pc = "ret"
       /\ (cpPc[p] = "others" /\ cpPc'[p] = "returned") =>
            disk[p].pc = "ret" /\ addr[p].pc = "ret" /\ sa[p].pc = "ret"]_vars

\* The orchestrator is still in others with the service account cleaner
\* returned with an error and the address cleaner returned, the disk cleaner
\* being the last one running.
OrchestratorStateMachineWitness ==
  \E p \in Projects :
    /\ cpPc[p] = "others"
    /\ sa[p].pc = "ret" /\ sa[p].err # "none"
    /\ addr[p].pc = "ret" /\ addr[p].err = "none"
    /\ disk[p].pc \notin {"ret", "client"}

computeKinds == {"instance", "disk", "address", "globalAddress"}

\* The task that issued delete call c is over: the goroutine of the
\* instance or account has ended, the loop of the disk or address cleaner
\* has gone past the item.
ItemTaskEnded(c) ==
  LET p == c.proj
  IN CASE c.kind = "instance" ->
            \A i \in 1..Len(vm[p].tasks) :
              vm[p].instances[i].name = c.name => vm[p].tasks[i] = "end"
       [] c.kind = "disk" ->
            ~(disk[p].pc = "wait"
              /\ inv[p].diskPages[disk[p].it][disk[p].idx].name = c.name)
       [] c.kind = "address" ->
            ~(addr[p].pc = "wait"
              /\ inv[p].addrPages[addr[p].it][addr[p].idx].name = c.name)
       [] c.kind = "globalAddress" ->
            ~(addr[p].pc = "gwait" /\ inv[p].gAddrs[addr[p].git].name = c.name)
       [] c.kind = "serviceAccount" ->
            \A i \in 1..Len(sa[p].tasks) :
              sa[p].targetAccounts[i].name = c.name => sa[p].tasks[i] = "end"

\* Delete call c was accepted and its task is over, so its wait is due.
WaitDue(c) == c.name \notin inv[c.proj].delFail /\ ItemTaskEnded(c)

\* C14 as stated: every accepted delete call, of a service account
\* included, has had a wait for its completion when the item's task ends.
EveryAcceptedDeleteIsAwaited ==
  \A c \in delCalls : WaitDue(c) => <<c.proj, c.kind, c.name>> \in waitCalls

\* C14 amended: every accepted instance, disk and address delete has had
\* its op.Wait when the item's task ends, and only accepted deletes are
\* waited for; a service account delete is the one Delete(...).Do() call,
\* with no wait after it.
EveryAcceptedComputeDeleteIsAwaited ==
  /\ \A c \in delCalls :
       (c.kind \in computeKinds /\ WaitDue(c)) =>
         <<c.proj, c.kind, c.name>> \in waitCalls
  /\ \A w \in waitCalls :
       /\ w[2] \in computeKinds
       /\ w[3] \in DeletedNames(w[1], w[2])
       /\ w[3] \notin inv[w[1]].delFail

\* A project is through with accepted instance, disk and global address
\* deletes, each waited for (one wait failing), with a refused disk delete
\* and with an accepted service account delete.
EveryAcceptedComputeDeleteIsAwaitedWitness ==
  \E p \in Projects :
    /\ cpPc[p] = "returned"
    /\ {<<p, "instance", <<"vm", 2>>>>, <<p, "disk", <<"d", 3>>>>,
        <<p, "globalAddress", <<"g", 2>>>>} \subseteq waitCalls
    /\ <<p, "disk", <<"d", 3>>, "wait">> \in errLog
    /\ <<p, "disk", <<"d", 2>>, "delete">> \in errLog
    /\ <<"t", 2>> \in DeletedNames(p, "serviceAccount")
    /\ <<p, "serviceAccount", <<"t", 2>>, "delete">> \notin errLog

DelKeys(calls) == {<<c.proj, c.kind, c.name>> : c \in calls}

\* The delete calls made in a step, read off the positions of the tasks and
\* loops: <<project, kind, name>> of each.
IssuedInStep ==
  UNION {
    {<<p, "instance", vm[p].instances[i].name>> :
       i \in {j \in 1..Len(vm[p].tasks) :
                vm[p].tasks[j] = "del" /\ vm'[p].tasks[j] # "del"}}
    \cup {<<p, "serviceAccount", sa[p].targetAccounts[i].name>> :
            i \in {j \in 1..Len(sa[p].tasks) :
                     sa[p].tasks[j] = "del" /\ sa'[p].tasks[j] # "del"}}
    \cup (IF disk[p].pc = "del" /\ disk'[p] # disk[p]
          THEN {<<p, "disk", inv[p].diskPages[disk[p].it][disk[p].idx].name>>}
          ELSE {})
    \cup (IF addr[p].pc = "del" /\ addr'[p] # addr[p]
          THEN {<<p, "address", inv[p].addrPages[addr[p].it][addr[p].idx].name>>}
          ELSE {})
    \cup (IF addr[p].pc = "gdel" /\ addr'[p] # addr[p]
          THEN {<<p, "globalAddress", inv[p].gAddrs[addr[p].git].name>>}
          ELSE {})
    : p \in Projects}

\* C15: over a whole run at most one delete call is issued per resource:
\* every delete call is for a resource that has had no delete call so far,
\* also after a refused Delete or a failed wait, and the recorded calls
\* grow by exactly the calls made.
NoDeleteTwice ==
  [][/\ IssuedInStep \cap DelKeys(delCalls) = {}
     /\ DelKeys(delCalls') = DelKeys(delCalls) \cup IssuedInStep
     /\ Cardinality(delCalls') = Cardinality(delCalls) + Cardinality(IssuedInStep)
     /\ \A t \in Projects : \A i \in 1..Len(vm[t].tasks) :
          vm[t].tasks[i] # "del" => vm'[t].tasks[i] # "del"]_vars

\* A project is through after a refused instance Delete, a failed instance
\* wait, a refused disk Delete and a failed disk wait, with one delete call
\* recorded for each of its instances.
NoDeleteTwiceWitness ==
  \E p \in Projects :
    /\ cpPc[p] = "returned"
    /\ {<<p, "instance", <<"vm", 1>>, "delete">>,
        <<p, "instance", <<"vm", 2>>, "wait">>,
        <<p, "disk", <<"d", 2>>, "delete">>,
        <<p, "disk", <<"d", 3>>, "wait">>} \subseteq errLog
    /\ Cardinality(DeletesOf(p, "instance")) = Len(vm[p].instances)
    /\ Len(vm[p].instances) >= 2

\* The accepted deletes of kind k of project p that have not been waited
\* for, in the given calls and waits.
InFlight(p, k, calls, waits) ==
  {c \in calls : /\ c.proj = p /\ c.kind = k
                 /\ c.name \notin inv[p].delFail
                 /\ <<p, k, c.name>> \notin waits}

\* C16: at most one disk delete of a project is in flight at any time, and
\* the Delete for the next disk is made only when every earlier disk Delete
\* of the project was refused or has had its wait return.
DiskDeletesSequential ==
  [][\A p \in Projects :
       /\ Cardinality(InFlight(p, "disk", delCalls', waitCalls')) <= 1
       /\ DeletesOf(p, "disk") # {c \in delCalls' : c.proj = p /\ c.kind = "disk"} =>
            \A c \in DeletesOf(p, "disk") :
              \/ <<p, "disk", c.name, "delete">> \in errLog
              \/ <<p, "disk", c.name>> \in waitCalls]_vars

\* The second free disk of a project is in flight after the first one was
\* deleted and waited for, and in another project after the first one was
\* refused.
DiskDeletesSequentialWitness ==
  /\ \E p \in Projects :
       /\ disk[p].pc = "wait"
       /\ InFlight(p, "disk", delCalls, waitCalls) # {}
       /\ <<p, "disk", <<"d", 2>>>> \in waitCalls
  /\ \E q \in Projects :
       /\ <<q, "disk", <<"d", 2>>, "delete">> \in errLog
       /\ <<"d", 3>> \in DeletedNames(q, "disk")

addressKinds == {"address", "globalAddress"}

AddressDeletes(p, calls) == {c \in calls : c.proj = p /\ c.kind \in addressKinds}

GlobalListCalls(p, calls) == {l \in calls : l[1] = p /\ l[2] = "globalAddress"}

OneDeletePerInstance ==
  \A p \in Projects :
    LET listed == Items(inv[p].vmPages)
    IN /\ (~dryRun /\ vm[p].pc = "ret" /\ vm[p].err = "none") =>
            /\ DeletedNames(p, "instance") = {x.name : x \in listed}
            /\ Cardinality(DeletesOf(p, "instance")) = Cardinality(listed)
            /\ \A c \in DeletesOf(p, "instance") :
                 \E x \in listed : x.name = c.name /\ c.loc = {<<x.zone[Len(x.zone)]>>}
            /\ \A i \in 1..Len(vm[p].tasks) : vm[p].tasks[i] = "end"
            /\ Len(vm[p].tasks) = Cardinality(listed)
       /\ vm[p].pc = "wait" =>
            /\ ~dryRun
            /\ Len(vm[p].tasks) = Cardinality(listed)
            /\ \A i \in 1..Len(vm[p].tasks) :
                 vm[p].tasks[i] = "del" =>
                   vm[p].instances[i].name \notin DeletedNames(p, "instance")

\* One project has the deletes of its RUNNING and of its stopped instance in
\* flight at the same time; another has returned nil from deleteVMInstances
\* with both deleted.
OneDeletePerInstanceWitness ==
  /\ \E p \in Projects :
       /\ vm[p].pc = "wait"
       /\ Cardinality(InFlight(p, "instance", delCalls, waitCalls)) >= 2
       /\ \E x \in Items(inv[p].vmPages) :
            /\ x.status = "RUNNING"
            /\ x.name \in {c.name : c \in InFlight(p, "instance", delCalls, waitCalls)}
  /\ \E q \in Projects :
       /\ ~dryRun /\ vm[q].pc = "ret" /\ vm[q].err = "none"
       /\ {<<"vm", 1>>, <<"vm", 2>>} \subseteq DeletedNames(q, "instance")

\* C19: a project whose instance listing fails, also after pages of
\* instances were listed and logged, never has an instance delete call; a
\* live run whose disk or region-scoped address listing fails has by then
\* made the delete call of every candidate listed before the failure.
CollectThenDelete ==
  \A p \in Projects :
    /\ (cpPc[p] # "idle" /\ inv[p].vmFail = "list") => DeletesOf(p, "instance") = {}
    /\ vm[p].err = "list" => vm[p].pc = "ret" /\ DeletesOf(p, "instance") = {}
    /\ (~dryRun /\ disk[p].pc = "ret" /\ disk[p].err = "list") =>
         {d.name : d \in {x \in Items(inv[p].diskPages) : Len(x.users) = 0}}
           = DeletedNames(p, "disk")
    /\ (~dryRun /\ addr[p].pc = "ret" /\ addr[p].err = "list") =>
         {a.name : a \in {x \in Items(inv[p].addrPages) : x.status # "IN_USE"}}
           = DeletedNames(p, "address")

\* A live run is over in which one project listed both instances before the
\* instance listing failed and deleted its free address before the address
\* listing failed, and another deleted its free disks before the disk
\* listing failed.
CollectThenDeleteWitness ==
  /\ ~dryRun /\ mainPc = "done"
  /\ \E p \in Projects :
       /\ vm[p].err = "list"
       /\ {<<"vm", 1>>, <<"vm", 2>>} \subseteq FoundNames(p, "instance")
       /\ addr[p].err = "list"
       /\ <<"a", 2>> \in DeletedNames(p, "address")
  /\ \E q \in Projects :
       /\ disk[q].err = "list"
       /\ {<<"d", 2>>, <<"d", 3>>} \subseteq DeletedNames(q, "disk")

AddressCountLines(p) == {w \in wouldCount : w[1] = p /\ w[2] = "address"}

\* C20: when the region-scoped address listing fails, releaseStaticIPs
\* returns the error with no global address listed, found or deleted and no
\* count line; when only the global listing fails, no further global list
\* call is made, releaseStaticIPs returns nil, and the report is the one of
\* a complete listing: in a dry run the count of the candidates of both
\* scopes seen so far.
AddressListFailures ==
  \A p \in Projects :
    /\ (cpPc[p] # "idle" /\ inv[p].addrFail = "list" /\ addr[p].pc = "ret") =>
         /\ addr[p].err = "list"
         /\ GlobalListCalls(p, listCalls) = {}
         /\ FoundNames(p, "globalAddress") = {}
         /\ DeletesOf(p, "globalAddress") = {}
         /\ AddressCountLines(p) = {}
    /\ addr[p].err = "list" => inv[p].addrFail = "list" /\ addr[p].pc = "ret"
    /\ (cpPc[p] # "idle" /\ inv[p].addrFail = "none" /\ inv[p].gFail = "list"
          /\ addr[p].pc = "ret") =>
         LET n == Cardinality({x \in Items(inv[p].addrPages) : x.status # "IN_USE"})
                  + Cardinality({x \in Elems(inv[p].gAddrs) : x.status # "IN_USE"})
         IN /\ addr[p].err = "none"
            /\ Cardinality(GlobalListCalls(p, listCalls)) = Len(inv[p].gAddrs) + 1
            /\ dryRun => AddressCountLines(p) = {<<p, "address", n>>}
            /\ ~dryRun =>
                 {x.name : x \in {y \in Elems(inv[p].gAddrs) : y.status # "IN_USE"}}
                   = DeletedNames(p, "globalAddress")

\* A dry run in which one project's region-scoped listing failed after its
\* reserved address was found, and another project's global listing failed
\* and the count of two addresses was reported.
AddressListFailuresWitness ==
  /\ dryRun
  /\ \E p \in Projects :
       /\ addr[p].pc = "ret" /\ addr[p].err = "list"
       /\ <<"a", 2>> \in FoundNames(p, "address")
  /\ \E q \in Projects :
       /\ addr[q].pc = "ret" /\ addr[q].err = "none"
       /\ inv[q].gFail = "list"
       /\ <<q, "address", 2>> \in wouldCount

====
